---- MODULE Spec2Model ----
(***************************************************************************)
(* Bank customer churn: the dashboard's loader (dashboard/app.py,          *)
(* load_data), its Normalizer -> Labeler fallback pipeline, the Risk       *)
(* Analysis page's scorer and the pages' group-by summaries; and the      *)
(* batch script's (src/churn_analysis.py) own Normalizer and Labeler       *)
(* statements, run beside the dashboard's on the same tables.              *)
(*                                                                         *)
(* A table (a pandas DataFrame) is [cols, rows]: the set of column names   *)
(* and the sequence of rows, each row a function from column name to       *)
(* value.  A missing value (pandas NaN) is the string "NaN".  cats is the   *)
(* set of columns of Categorical dtype (what pd.cut and pd.qcut return).   *)
(***************************************************************************)
EXTENDS Integers, Sequences, FiniteSets, TLC

VARIABLES
    pc,         \* where the dashboard script is
    idx,        \* index of the candidate the running loop tries next
    attempts,   \* the read_csv calls made so far, in order: path, file found, outcome
    df,         \* load_data's local df, then the cached table the pages read
    kpi,        \* the KPI series load_data returns
    raised,     \* the exception load_data raised, or None
    loaded,     \* the table as load_data returned it (history)
    view,       \* what the last page run rendered
    probe,      \* the pipeline specification: the table under test
    out,        \* the pipeline specification: the last stage's result
    observed    \* the installed pandas' default for groupby(observed=...)

vars == <<pc, idx, attempts, df, kpi, raised, loaded, view, probe, out, observed>>

None == "None"
NaN == "NaN"

\* How far beyond a column's documented domain the sampled values reach.
Slack == 2
\* Longest Balance column sampled for the quantile labeler.
MaxRows == 4
\* Largest Balance sampled for the quantile labeler.
MaxBalance == 3

(***************************************************************************)
(* DataFrame primitives                                                    *)
(***************************************************************************)
Frame(cols, rows, cats) == [cols |-> cols, rows |-> rows, cats |-> cats]

\* A table none of whose columns is Categorical.
Table(cols, rows) == Frame(cols, rows, {})

\* Python's df = None: no frame at all (a frame read from a file has columns).
NoFrame == Table({}, <<>>)

Column(t, c) == [i \in 1..Len(t.rows) |-> t.rows[i][c]]

\* df[c] = vals : add (or overwrite) a column in place.
WithColumn(t, c, vals) ==
    Frame(t.cols \cup {c},
          [i \in 1..Len(t.rows) |->
              [d \in t.cols \cup {c} |-> IF d = c THEN vals[i] ELSE t.rows[i][d]]],
          t.cats \ {c})

\* df[c] = pd.cut(...) / pd.qcut(...): the new column is Categorical.
WithCategorical(t, c, vals) ==
    LET w == WithColumn(t, c, vals) IN Frame(w.cols, w.rows, w.cats \cup {c})

\* df.drop(names, axis=1, errors='ignore'): absent names are skipped.
DropIgnore(t, names) ==
    Frame(t.cols \ names,
          [i \in 1..Len(t.rows) |-> [d \in t.cols \ names |-> t.rows[i][d]]],
          t.cats \ names)

\* The columns argument of df.rename.
RenameCol(c) ==
    CASE c = "Exited" -> "Churned"
      [] c = "Complain" -> "HasComplaint"
      [] c = "Satisfaction Score" -> "SatisfactionScore"
      [] c = "Card Type" -> "CardType"
      [] c = "Point Earned" -> "PointsEarned"
      [] OTHER -> c

\* df.rename(columns={...}): columns not in the table are skipped.
Rename(t) ==
    LET new == {RenameCol(c) : c \in t.cols}
        old(d) == CHOOSE c \in t.cols : RenameCol(c) = d
    IN  Frame(new, [i \in 1..Len(t.rows) |-> [d \in new |-> t.rows[i][old(d)]]],
              {RenameCol(c) : c \in t.cats})

IdentifierColumns == {"RowNumber", "CustomerId", "Surname"}

(***************************************************************************)
(* pd.cut(x, bins, labels), right=True, include_lowest=False:              *)
(* ids = bins.searchsorted(x, side='left'); NaN where ids is 0 or          *)
(* len(bins); otherwise labels[ids - 1] (1-based here: labels[ids]).       *)
(***************************************************************************)
SearchSortedLeft(bins, x) == Cardinality({i \in 1..Len(bins) : bins[i] < x})

CutLeftClosed(x, bins, labels) ==
    LET ids == Cardinality({i \in 1..Len(bins) : bins[i] <= x})
    IN  IF ids = 0 \/ ids = Len(bins) THEN NaN ELSE labels[ids]

Cut(x, bins, labels) ==
    LET ids == SearchSortedLeft(bins, x)
    IN  IF ids = 0 \/ ids = Len(bins) THEN NaN ELSE labels[ids]

AgeBins == <<0, 30, 40, 50, 60, 100>>
AgeLabels == <<"18-30", "31-40", "41-50", "51-60", "60+">>
CreditBins == <<0, 580, 670, 740, 800, 900>>
CreditLabels == <<"Poor", "Fair", "Good", "Very Good", "Excellent">>
TenureBins == <<-1, 2, 5, 8, 10>>
TenureLabels == <<"New (0-2)", "Growing (3-5)", "Mature (6-8)", "Loyal (9-10)">>

AgeGroupLeftClosed(age) == CutLeftClosed(age, AgeBins, AgeLabels)

AgeGroup(age) == Cut(age, AgeBins, AgeLabels)
CreditSegment(score) == Cut(score, CreditBins, CreditLabels)
TenureSegment(tenure) == Cut(tenure, TenureBins, TenureLabels)

(***************************************************************************)
(* pd.qcut(Balance.replace(0, NaN), q=4, labels, duplicates='drop')        *)
(***************************************************************************)
RECURSIVE Insert(_, _)
Insert(x, s) ==
    IF s = <<>> THEN <<x>>
    ELSE IF x <= Head(s) THEN <<x>> \o s ELSE <<Head(s)>> \o Insert(x, Tail(s))

RECURSIVE Sort(_)
Sort(s) == IF s = <<>> THEN <<>> ELSE Insert(Head(s), Sort(Tail(s)))

RECURSIVE Without(_, _)
Without(s, v) ==
    IF s = <<>> THEN <<>>
    ELSE IF Head(s) = v THEN Without(Tail(s), v) ELSE <<Head(s)>> \o Without(Tail(s), v)

QuantileInputAll(balances) == balances

\* Series.replace(0, NaN) followed by dropna(): the values the quantiles see.
QuantileInput(balances) == Without(balances, 0)

\* Four times the k/4 quantile (linear interpolation) of the sorted values v.
Quantile4(v, k) ==
    LET pos == (Len(v) - 1) * k
        i == pos \div 4
        f == pos % 4
    IN  IF f = 0 THEN 4 * v[i + 1]
        ELSE 4 * v[i + 1] + f * (v[i + 2] - v[i + 1])

\* The quantile edges (times four), or <<>> when there is no value to rank.
QuantileEdges(balances) ==
    LET v == Sort(QuantileInput(balances))
    IN  IF v = <<>> THEN <<>> ELSE [k \in 1..5 |-> Quantile4(v, k - 1)]

\* algos.unique(bins): the sorted edges with duplicates dropped.
RECURSIVE Unique(_)
Unique(s) ==
    IF Len(s) <= 1 THEN s
    ELSE IF s[1] = s[2] THEN Unique(Tail(s)) ELSE <<s[1]>> \o Unique(Tail(s))

BalanceLabels == <<"Low", "Medium", "High", "Premium">>

\* _bins_to_cuts raises "Bin labels must be one fewer than the number of bin
\* edges" when dropping duplicate edges leaves fewer than five.
QcutRaises(balances) == Len(Unique(QuantileEdges(balances))) # Len(BalanceLabels) + 1

\* One value's label: NaN for the replaced zero; include_lowest puts the
\* minimum into the first bin.
QcutLabel(b, edges) ==
    IF b = 0 THEN NaN
    ELSE LET ids0 == SearchSortedLeft(edges, 4 * b)
             ids == IF 4 * b = edges[1] THEN 1 ELSE ids0
         IN  IF ids = 0 \/ ids = Len(edges) THEN NaN ELSE BalanceLabels[ids]

\* df.loc[df['Balance'] == 0, 'BalanceSegment'] = 'Zero'
BalanceSegment(b, edges) == IF b = 0 THEN "Zero" ELSE QcutLabel(b, edges)

(***************************************************************************)
(* Results of a stage that may raise: [ok, df, err].  df is the table as   *)
(* the stage left it, also when it raised part-way.                        *)
(***************************************************************************)
Ok(t) == [ok |-> TRUE, df |-> t, err |-> None]
Fail(t, e) == [ok |-> FALSE, df |-> t, err |-> e]

\* df['AgeGroup'] = pd.cut(df['Age'], ...)
LabelAge(t) ==
    IF "Age" \notin t.cols THEN Fail(t, "KeyError")
    ELSE Ok(WithCategorical(t, "AgeGroup",
                            [i \in 1..Len(t.rows) |-> AgeGroup(t.rows[i]["Age"])]))

\* df['BalanceSegment'] = pd.qcut(...); add_categories(['Zero']); loc[...] = 'Zero'
LabelBalance(t) ==
    IF "Balance" \notin t.cols THEN Fail(t, "KeyError")
    ELSE LET bal == Column(t, "Balance")
         IN  IF QcutRaises(bal) THEN Fail(t, "ValueError")
             ELSE Ok(WithCategorical(t, "BalanceSegment",
                        [i \in 1..Len(t.rows) |->
                            BalanceSegment(bal[i], QuantileEdges(bal))]))

\* df['CreditSegment'] = pd.cut(df['CreditScore'], ...)
LabelCredit(t) ==
    IF "CreditScore" \notin t.cols THEN Fail(t, "KeyError")
    ELSE Ok(WithCategorical(t, "CreditSegment",
                            [i \in 1..Len(t.rows) |-> CreditSegment(t.rows[i]["CreditScore"])]))

\* df['TenureSegment'] = pd.cut(df['Tenure'], ...)
LabelTenure(t) ==
    IF "Tenure" \notin t.cols THEN Fail(t, "KeyError")
    ELSE Ok(WithCategorical(t, "TenureSegment",
                            [i \in 1..Len(t.rows) |-> TenureSegment(t.rows[i]["Tenure"])]))

\* The dashboard's Segment Labeler: AgeGroup, BalanceSegment, CreditSegment,
\* TenureSegment, in that order; the first statement that raises ends it.
Labeler(t) ==
    LET a == LabelAge(t)
        b == LabelBalance(a.df)
        c == LabelCredit(b.df)
    IN  IF ~a.ok THEN a
        ELSE IF ~b.ok THEN b
        ELSE IF ~c.ok THEN c
        ELSE LabelTenure(c.df)

\* The dashboard's Schema Normalizer.
Normalizer(t) == Rename(DropIgnore(t, IdentifierColumns))

\* The body of the raw-fallback try block after read_csv.
ProcessRaw(t) == Labeler(Normalizer(t))

(***************************************************************************)
(* The batch script (src/churn_analysis.py): its own Normalizer and        *)
(* Labeler statements.  An exception there is not caught: the script ends. *)
(***************************************************************************)
\* df.drop(names, axis=1): a name that is not a column raises KeyError.
DropStrict(t, names) ==
    IF names \subseteq t.cols THEN Ok(DropIgnore(t, names)) ELSE Fail(t, "KeyError")

BatchNormalizer(t) ==
    LET d == DropStrict(t, IdentifierColumns)
    IN  IF d.ok THEN Ok(Rename(d.df)) ELSE d

BatchAgeBins == <<0, 30, 40, 50, 60, 100>>
BatchAgeLabels == <<"18-30", "31-40", "41-50", "51-60", "60+">>
BatchCreditBins == <<0, 580, 670, 740, 800, 900>>
BatchCreditLabels == <<"Poor", "Fair", "Good", "Very Good", "Excellent">>
BatchTenureBins == <<-1, 2, 5, 8, 10>>
BatchTenureLabels == <<"New (0-2)", "Growing (3-5)", "Mature (6-8)", "Loyal (9-10)">>

\* df[dst] = pd.cut(df[src], bins=bins, labels=labels)
BatchCut(t, src, dst, bins, labels) ==
    IF src \notin t.cols THEN Fail(t, "KeyError")
    ELSE Ok(WithCategorical(t, dst,
                [i \in 1..Len(t.rows) |-> Cut(t.rows[i][src], bins, labels)]))

\* df['BalanceSegment'] = pd.qcut(...); add_categories(['Zero']); loc[...] = 'Zero'
BatchLabelBalance(t) ==
    IF "Balance" \notin t.cols THEN Fail(t, "KeyError")
    ELSE LET bal == Column(t, "Balance")
         IN  IF QcutRaises(bal) THEN Fail(t, "ValueError")
             ELSE Ok(WithCategorical(t, "BalanceSegment",
                        [i \in 1..Len(t.rows) |->
                            BalanceSegment(bal[i], QuantileEdges(bal))]))

\* The script's labeling statements in their order: AgeGroup, BalanceSegment,
\* CreditSegment, TenureSegment.
BatchLabeler(t) ==
    LET a == BatchCut(t, "Age", "AgeGroup", BatchAgeBins, BatchAgeLabels)
        b == BatchLabelBalance(a.df)
        c == BatchCut(b.df, "CreditScore", "CreditSegment",
                      BatchCreditBins, BatchCreditLabels)
    IN  IF ~a.ok THEN a
        ELSE IF ~b.ok THEN b
        ELSE IF ~c.ok THEN c
        ELSE BatchCut(c.df, "Tenure", "TenureSegment", BatchTenureBins, BatchTenureLabels)

\* The script's Normalizer then Labeler on the table it read.
BatchProcess(t) ==
    LET n == BatchNormalizer(t) IN IF n.ok THEN BatchLabeler(n.df) ELSE n

(***************************************************************************)
(* Risk Analysis page: the additive score and its level                    *)
(***************************************************************************)
RiskColumns == {"HasComplaint", "IsActiveMember", "Geography", "NumOfProducts", "Age"}

Weight(cond, w) == IF cond THEN w ELSE 0

RiskScoreMonotoneProducts(r) ==
      Weight(r["HasComplaint"] = 1, 40)
    + Weight(r["IsActiveMember"] = 0, 20)
    + Weight(r["Geography"] = "Germany", 15)
    + Weight(r["NumOfProducts"] \in {2, 3, 4}, 15)
    + Weight(r["Age"] > 50, 10)

\* RiskScore = 0, then one += per rule.
RiskScore(r) ==
      Weight(r["HasComplaint"] = 1, 40)
    + Weight(r["IsActiveMember"] = 0, 20)
    + Weight(r["Geography"] = "Germany", 15)
    + Weight(r["NumOfProducts"] \in {1, 3, 4}, 15)
    + Weight(r["Age"] > 50, 10)

RiskBins == <<-1, 20, 40, 60, 100>>
RiskLabels == <<"Low", "Medium", "High", "Critical">>

RiskLevelLeftClosed(score) == CutLeftClosed(score, RiskBins, RiskLabels)

RiskLevel(score) == Cut(score, RiskBins, RiskLabels)

\* The scoring statements, applied to the frame they are given.
RiskScorer(t) ==
    IF ~(RiskColumns \subseteq t.cols) THEN Fail(t, "KeyError")
    ELSE LET scored == WithColumn(t, "RiskScore",
                          [i \in 1..Len(t.rows) |-> RiskScore(t.rows[i])])
         IN  Ok(WithCategorical(scored, "RiskLevel",
                    [i \in 1..Len(t.rows) |-> RiskLevel(scored.rows[i]["RiskScore"])]))

(***************************************************************************)
(* Sample data                                                             *)
(***************************************************************************)
CanonicalColumns ==
    {"CreditScore", "Geography", "Gender", "Age", "Tenure", "Balance",
     "NumOfProducts", "HasCrCard", "IsActiveMember", "EstimatedSalary",
     "Churned", "HasComplaint", "SatisfactionScore", "CardType", "PointsEarned"}

\* The scenario row: complaint, inactive, Germany, three products, age 55.
ScenarioRow ==
    [CreditScore |-> 650, Geography |-> "Germany", Gender |-> "Female",
     Age |-> 55, Tenure |-> 3, Balance |-> 0, NumOfProducts |-> 3,
     HasCrCard |-> 1, IsActiveMember |-> 0, EstimatedSalary |-> 50000,
     Churned |-> 1, HasComplaint |-> 1, SatisfactionScore |-> 2,
     CardType |-> "GOLD", PointsEarned |-> 500]

RowA ==
    [CreditScore |-> 580, Geography |-> "France", Gender |-> "Male",
     Age |-> 30, Tenure |-> 0, Balance |-> 1000, NumOfProducts |-> 2,
     HasCrCard |-> 1, IsActiveMember |-> 1, EstimatedSalary |-> 60000,
     Churned |-> 0, HasComplaint |-> 0, SatisfactionScore |-> 4,
     CardType |-> "GOLD", PointsEarned |-> 300]

RowB ==
    [CreditScore |-> 801, Geography |-> "France", Gender |-> "Female",
     Age |-> 41, Tenure |-> 10, Balance |-> 2000, NumOfProducts |-> 1,
     HasCrCard |-> 0, IsActiveMember |-> 1, EstimatedSalary |-> 70000,
     Churned |-> 1, HasComplaint |-> 0, SatisfactionScore |-> 3,
     CardType |-> "SILVER", PointsEarned |-> 400]

With(r, c, v) == [r EXCEPT ![c] = v]

Range(s) == {s[k] : k \in 1..Len(s)}

RawColumns ==
    {"RowNumber", "CustomerId", "Surname", "CreditScore", "Geography", "Gender",
     "Age", "Tenure", "Balance", "NumOfProducts", "HasCrCard", "IsActiveMember",
     "EstimatedSalary", "Exited", "Complain", "Satisfaction Score", "Card Type",
     "Point Earned"}

\* A row of the raw file: the canonical row under the raw header.
RawRow(r, n) ==
    [c \in RawColumns |->
        CASE c = "RowNumber" -> n
          [] c = "CustomerId" -> 15600000 + n
          [] c = "Surname" -> "Smith"
          [] OTHER -> r[RenameCol(c)]]

RawTable(rows) == Table(RawColumns, [n \in 1..Len(rows) |-> RawRow(rows[n], n)])

(***************************************************************************)
(* The pipeline on one table: the Segment Labeler and the Risk Scorer      *)
(* applied to sampled tables.  Row 1 is the row under test; rows 2 and 3   *)
(* give the Balance column two distinct nonzero values, without which      *)
(* qcut raises.                                                            *)
(***************************************************************************)
AgeRange == (1 - Slack)..(100 + Slack)
CreditRange == (1 - Slack)..(900 + Slack)
TenureRange == (0 - Slack)..(10 + Slack)

RiskProbes ==
    {With(With(With(With(With(ScenarioRow, "Age", a), "HasComplaint", h),
                    "IsActiveMember", m), "Geography", g), "NumOfProducts", n) :
        a \in AgeRange, h \in {0, 1}, m \in {0, 1},
        g \in {"France", "Spain", "Germany"}, n \in 1..4}

RowProbes ==
    RiskProbes
    \cup {With(ScenarioRow, "CreditScore", c) : c \in CreditRange}
    \cup {With(ScenarioRow, "Tenure", t) : t \in TenureRange}

BalanceColumns == UNION {[1..n -> 0..MaxBalance] : n \in 1..MaxRows}

\* Raw tables, with every choice of identifier columns present; one table
\* has an out-of-range Age, one a single nonzero Balance, one no Age column.
RawProbes ==
    {DropIgnore(RawTable(rows), ids) :
        rows \in {<<ScenarioRow, RowA, RowB>>,
                  <<With(ScenarioRow, "Age", 0), RowA, RowB>>,
                  <<RowA, With(RowA, "Age", 31)>>},
        ids \in SUBSET IdentifierColumns}
    \cup {DropIgnore(RawTable(<<ScenarioRow, RowA, RowB>>), {"Age"})}

ProbeTables ==
    {Table(CanonicalColumns, <<r, RowA, RowB>>) : r \in RowProbes}
    \cup {Table(CanonicalColumns, [i \in 1..Len(b) |-> With(RowA, "Balance", b[i])]) :
            b \in BalanceColumns}
    \cup RawProbes

NoResult == [stage |-> None, res |-> [ok |-> TRUE, df |-> NoFrame, err |-> None]]

InitPipeline ==
    /\ pc = "pipeline"
    /\ idx = 0 /\ attempts = <<>> /\ df = NoFrame /\ kpi = None
    /\ raised = None /\ loaded = NoFrame /\ view = None
    /\ probe \in ProbeTables
    /\ out = NoResult
    /\ observed = TRUE

RunLabeler ==
    /\ pc = "pipeline"
    /\ out' = [stage |-> "Labeler", res |-> Labeler(probe)]
    /\ UNCHANGED <<pc, idx, attempts, df, kpi, raised, loaded, view, probe, observed>>

RunRiskScorer ==
    /\ pc = "pipeline"
    /\ out' = [stage |-> "RiskScorer", res |-> RiskScorer(probe)]
    /\ UNCHANGED <<pc, idx, attempts, df, kpi, raised, loaded, view, probe, observed>>

\* The dashboard's Normalizer alone (drop with errors='ignore', rename).
RunNormalizer ==
    /\ pc = "pipeline"
    /\ out' = [stage |-> "Normalizer", res |-> Ok(Normalizer(probe))]
    /\ UNCHANGED <<pc, idx, attempts, df, kpi, raised, loaded, view, probe, observed>>

\* The batch script's Normalizer alone.
RunBatchNormalizer ==
    /\ pc = "pipeline"
    /\ out' = [stage |-> "BatchNormalizer", res |-> BatchNormalizer(probe)]
    /\ UNCHANGED <<pc, idx, attempts, df, kpi, raised, loaded, view, probe, observed>>

\* The same table through the dashboard's raw-fallback body and through the
\* batch script.
RunBothPipelines ==
    /\ pc = "pipeline"
    /\ out' = [stage |-> "Pipelines", res |-> ProcessRaw(probe),
               batch |-> BatchProcess(probe)]
    /\ UNCHANGED <<pc, idx, attempts, df, kpi, raised, loaded, view, probe, observed>>

NextPipeline ==
    \/ RunLabeler
    \/ RunRiskScorer
    \/ RunNormalizer
    \/ RunBatchNormalizer
    \/ RunBothPipelines

SpecPipeline == InitPipeline /\ [][NextPipeline]_vars

(***************************************************************************)
(* The files the dashboard may find                                        *)
(***************************************************************************)
possible_paths ==
    <<"data/processed_churn_data.csv",
      "../data/processed_churn_data.csv",
      "bank_churn_project/data/processed_churn_data.csv">>

raw_paths ==
    <<"data/raw/Customer-Churn-Records.csv",
      "../data/raw/Customer-Churn-Records.csv",
      "bank_churn_project/data/raw/Customer-Churn-Records.csv">>

Missing == "missing"

RawFiles ==
    {"raw_ok", "raw_age0", "raw_no_age", "raw_flat", "raw_no_balance", "raw_no_geo"}
ProcessedFiles == {"derived_ok", "derived_other"}

\* What read_csv parses from a file with this content.
\* What df.to_csv leaves in a file and read_csv reads back: the same cells,
\* the labels as plain strings (a CSV file records no Categorical dtype).
ToCsv(t) == Table(t.cols, t.rows)

FileContent(name) ==
    CASE name = "raw_ok" -> RawTable(<<ScenarioRow, RowA, RowB>>)
      [] name = "raw_age0" -> RawTable(<<With(ScenarioRow, "Age", 0), RowA, RowB>>)
      [] name = "raw_no_age" ->
            DropIgnore(RawTable(<<ScenarioRow, RowA, RowB>>), {"Age"})
      [] name = "raw_flat" -> RawTable(<<RowA, With(RowA, "Age", 31)>>)
      [] name = "raw_no_balance" ->
            DropIgnore(RawTable(<<ScenarioRow, RowA, RowB>>), {"Balance"})
      [] name = "raw_no_geo" ->
            DropIgnore(RawTable(<<ScenarioRow, RowA, RowB>>), {"Geography"})
      [] name = "derived_ok" -> ToCsv(ProcessRaw(RawTable(<<ScenarioRow, RowA, RowB>>)).df)
      [] name = "derived_other" -> ToCsv(ProcessRaw(RawTable(<<RowB, RowA>>)).df)

\* pd.read_csv(path), file being what is found at the path.
ReadCsv(path, file) ==
    IF file = Missing THEN Fail(NoFrame, "FileNotFoundError")
    ELSE Ok(FileContent(file))

(***************************************************************************)
(* load_data                                                               *)
(***************************************************************************)
Attempt(list, path, file, outcome) ==
    [list |-> list, path |-> path, file |-> file, outcome |-> outcome]

\* Where the first loop goes after trying candidate k: break on success,
\* else the next candidate; after the loop the raw fallback runs only if
\* df is still None.
AfterProcessedNoBreak(ok, k, frame) ==
    IF k < Len(possible_paths) THEN [pc |-> "processed", i |-> k + 1]
    ELSE IF frame = NoFrame THEN [pc |-> "raw", i |-> 1]
    ELSE [pc |-> "check", i |-> 0]

AfterProcessed(ok, k, frame) ==
    IF ok THEN [pc |-> "check", i |-> 0]
    ELSE IF k < Len(possible_paths) THEN [pc |-> "processed", i |-> k + 1]
    ELSE IF frame = NoFrame THEN [pc |-> "raw", i |-> 1]
    ELSE [pc |-> "check", i |-> 0]

\* Where the second loop goes after trying raw candidate k: break when the
\* whole try body succeeded, else the next candidate.
AfterRaw(ok, k) ==
    IF ok THEN [pc |-> "check", i |-> 0]
    ELSE IF k < Len(raw_paths) THEN [pc |-> "raw", i |-> k + 1]
    ELSE [pc |-> "check", i |-> 0]

\* One iteration of the loop over possible_paths.
TryProcessed ==
    /\ pc = "processed"
    /\ \E file \in {Missing} \cup ProcessedFiles :
         LET r == ReadCsv(possible_paths[idx], file)
             frame == IF r.ok THEN r.df ELSE df
             nxt == AfterProcessed(r.ok, idx, frame)
         IN  /\ df' = frame
             /\ attempts' = Append(attempts,
                    Attempt("processed", possible_paths[idx], file,
                            IF r.ok THEN "ok" ELSE r.err))
             /\ pc' = nxt.pc
             /\ idx' = nxt.i
    /\ UNCHANGED <<kpi, raised, loaded, view, probe, out, observed>>

\* The try body of the raw loop: read_csv, then Normalizer and Labeler.  df
\* is assigned by read_csv, drop and rename and extended in place by each
\* label, so an exception leaves it as far as the body got.
RawBody(path, file, frame) ==
    LET r == ReadCsv(path, file)
    IN  IF r.ok THEN ProcessRaw(r.df) ELSE Fail(frame, r.err)

\* One iteration of the loop over raw_paths.
TryRaw ==
    /\ pc = "raw"
    /\ \E file \in {Missing} \cup RawFiles :
         LET r == RawBody(raw_paths[idx], file, df)
             nxt == AfterRaw(r.ok, idx)
         IN  /\ df' = r.df
             /\ attempts' = Append(attempts,
                    Attempt("raw", raw_paths[idx], file,
                            IF r.ok THEN "ok" ELSE r.err))
             /\ pc' = nxt.pc
             /\ idx' = nxt.i
    /\ UNCHANGED <<kpi, raised, loaded, view, probe, out, observed>>

Exception(type, args) == [type |-> type, args |-> args]
NoException == Exception(None, <<>>)

KpiColumns ==
    {"Churned", "Balance", "CreditScore", "Tenure", "IsActiveMember", "HasComplaint"}

RECURSIVE SumSeq(_)
SumSeq(s) == IF s = <<>> THEN 0 ELSE Head(s) + SumSeq(Tail(s))

\* A float as an exact fraction; den = 0 is NaN (the mean of no rows).
Ratio(num, den) == [num |-> num, den |-> den]
Mean(t, c) == Ratio(SumSeq(Column(t, c)), Len(t.rows))
\* df['Churned'].mean() * 100
PercentAsFraction(m) == m

Percent(m) == Ratio(100 * m.num, m.den)

\* df[df['Churned']==1]['Balance'].sum()
ChurnedBalance(t) ==
    SumSeq([k \in 1..Len(t.rows) |->
               IF t.rows[k]["Churned"] = 1 THEN t.rows[k]["Balance"] ELSE 0])

Kpi(t) ==
    LET churn_rate == Percent(Mean(t, "Churned"))
    IN  [total_customers |-> Len(t.rows),
         churn_rate |-> churn_rate,
         retention_rate |-> Ratio(100 * churn_rate.den - churn_rate.num, churn_rate.den),
         avg_balance |-> Mean(t, "Balance"),
         avg_credit_score |-> Mean(t, "CreditScore"),
         avg_tenure |-> Mean(t, "Tenure"),
         active_member_rate |-> Percent(Mean(t, "IsActiveMember")),
         complaint_rate |-> Percent(Mean(t, "HasComplaint")),
         balance_at_risk |-> ChurnedBalance(t)]

NoKpi == [total_customers |-> 0]

\* Where the script goes after the module-level try: on to the sidebar and
\* the pages when data_loaded, else st.stop() after the header.
AfterLoadNoStop(data_loaded) == "sidebar"

AfterLoad(data_loaded) == IF data_loaded THEN "sidebar" ELSE "stopped"

\* What the except branch renders: st.error with the exception, st.info
\* with the hint; no page.
ErrorView(e) ==
    [page |-> None, err |-> None,
     error |-> <<"Error loading data", e>>,
     info |-> "Please make sure the data files are in the correct location."]

\* After the loops: raise if df is None, else compute the KPI series and
\* return; the module then sets data_loaded, or reports the error and stops.
Finish ==
    /\ pc = "check"
    /\ IF df = NoFrame
       THEN LET e == Exception("FileNotFoundError",
                               <<"Could not load data from any path">>)
            IN  /\ raised' = e
                /\ view' = ErrorView(e)
                /\ pc' = AfterLoad(FALSE)
                /\ UNCHANGED <<kpi, loaded>>
       ELSE IF ~(KpiColumns \subseteq df.cols)
       THEN LET e == Exception("KeyError", <<>>)
            IN  /\ raised' = e
                /\ view' = ErrorView(e)
                /\ pc' = AfterLoad(FALSE)
                /\ UNCHANGED <<kpi, loaded>>
       ELSE /\ kpi' = Kpi(df)
            /\ loaded' = df
            /\ pc' = AfterLoad(TRUE)
            /\ UNCHANGED <<raised, view>>
    /\ UNCHANGED <<idx, attempts, df, probe, out, observed>>

(***************************************************************************)
(* The pages.  Each interaction reruns the script: load_data() hands back  *)
(* the cached table and the selected page renders from it.                 *)
(***************************************************************************)
RECURSIVE SumOver(_, _)
SumOver(f, keys) ==
    IF keys = {} THEN 0
    ELSE LET x == CHOOSE y \in keys : TRUE IN f[x] + SumOver(f, keys \ {x})

LabelColumns ==
    {"AgeGroup", "BalanceSegment", "CreditSegment", "TenureSegment", "RiskLevel"}

\* The categories of a Categorical label column: the labels handed to
\* pd.cut / pd.qcut, and 'Zero' added by add_categories.
Categories(col) ==
    CASE col = "AgeGroup" -> AgeLabels
      [] col = "BalanceSegment" -> BalanceLabels \o <<"Zero">>
      [] col = "CreditSegment" -> CreditLabels
      [] col = "TenureSegment" -> TenureLabels
      [] col = "RiskLevel" -> RiskLabels

\* The group keys of df.groupby(col), called without observed=: the values
\* present, NaN dropped (only a label column can hold NaN here); for a
\* Categorical column under observed=False, every category instead.
GroupKeys(t, col) ==
    LET present == {t.rows[k][col] : k \in 1..Len(t.rows)}
    IN  IF col \in t.cats /\ ~observed THEN Range(Categories(col))
        ELSE IF col \in LabelColumns THEN present \ {NaN}
        ELSE present

Group(t, col, key) == {k \in 1..Len(t.rows) : t.rows[k][col] = key}

SumCol(t, c, members) == SumOver([k \in members |-> t.rows[k][c]], members)

\* round half to even of num/den, den > 0.
Round(num, den) ==
    LET q == num \div den
        r == num % den
    IN  IF 2 * r < den THEN q
        ELSE IF 2 * r > den THEN q + 1
        ELSE IF q % 2 = 0 THEN q ELSE q + 1

\* groupby(col)['Churned'].agg(['count', 'sum', 'mean']), ChurnRate * 100
Aggregate(t, col) ==
    [key \in GroupKeys(t, col) |->
        LET g == Group(t, col, key)
        IN  [Total |-> Cardinality(g),
             Churned |-> SumCol(t, "Churned", g),
             ChurnRate |-> Ratio(100 * SumCol(t, "Churned", g), Cardinality(g))]]

\* .mean().round(2) of a group, in hundredths; the mean of no rows is NaN.
RoundMean(sum, n) == IF n = 0 THEN NaN ELSE Round(100 * sum, n)

\* The Customer Segments page's seg_data: count, sum and mean of Churned
\* and the means of Balance and CreditScore, rounded to two places (held
\* in hundredths), ChurnRate then times 100.
SegData(t, col) ==
    [key \in GroupKeys(t, col) |->
        LET g == Group(t, col, key)
            n == Cardinality(g)
        IN  [Total |-> n,
             Churned |-> SumCol(t, "Churned", g),
             ChurnRate |-> RoundMean(SumCol(t, "Churned", g), n),
             AvgBalance |-> RoundMean(SumCol(t, "Balance", g), n),
             AvgCreditScore |-> RoundMean(SumCol(t, "CreditScore", g), n)]]

segment_map ==
    [BalanceSegmentChoice |-> "BalanceSegment", CreditScoreSegmentChoice |-> "CreditSegment",
     TenureSegmentChoice |-> "TenureSegment", AgeGroupChoice |-> "AgeGroup"]

\* df[mask], mask a Boolean per row.
RECURSIVE Select(_, _)
Select(rows, mask) ==
    IF rows = <<>> THEN <<>>
    ELSE IF Head(mask) THEN <<Head(rows)>> \o Select(Tail(rows), Tail(mask))
    ELSE Select(Tail(rows), Tail(mask))

Filter(t, mask) == Frame(t.cols, Select(t.rows, mask), t.cats)

Unique1(t, c) == {t.rows[k][c] : k \in 1..Len(t.rows)}

NoView == [page |-> None, err |-> None]

\* What the table the pages share is after the Risk Analysis page has scored
\* its frame: the page scores df_risk = df.copy(), so df itself is untouched.
SharedAfterRiskAliased(shared, scored) == scored

SharedAfterRisk(shared, scored) == shared

Rerun ==
    pc = "sidebar" /\ UNCHANGED <<pc, idx, attempts, kpi, raised, loaded, probe, out, observed>>

ExecutiveSummary ==
    /\ Rerun
    /\ df' = loaded
    /\ view' =
         IF ~({"Geography", "IsActiveMember", "AgeGroup"} \subseteq loaded.cols)
         THEN [page |-> "Executive Summary", err |-> "KeyError"]
         ELSE [page |-> "Executive Summary", err |-> None,
               kpi |-> kpi,
               geo_churn |-> Aggregate(loaded, "Geography"),
               age_churn |-> Aggregate(loaded, "AgeGroup"),
               active_churn |-> Aggregate(loaded, "IsActiveMember")]

ChurnAnalysis ==
    /\ Rerun
    /\ df' = loaded
    /\ IF ~({"Geography", "Gender", "CardType", "NumOfProducts", "HasComplaint"}
              \subseteq loaded.cols)
       THEN view' = [page |-> "Churn Analysis", err |-> "KeyError"]
       ELSE \E geo_filter \in SUBSET Unique1(loaded, "Geography"),
               gender_filter \in SUBSET Unique1(loaded, "Gender"),
               card_filter \in SUBSET Unique1(loaded, "CardType") :
            LET mask == [k \in 1..Len(loaded.rows) |->
                            /\ loaded.rows[k]["Geography"] \in geo_filter
                            /\ loaded.rows[k]["Gender"] \in gender_filter
                            /\ loaded.rows[k]["CardType"] \in card_filter]
                filtered_df == Filter(loaded, mask)
            IN  view' = [page |-> "Churn Analysis", err |-> None,
                         filtered |-> Len(filtered_df.rows),
                         churn_rate |-> Percent(Mean(filtered_df, "Churned")),
                         gender_data |-> Aggregate(filtered_df, "Gender"),
                         prod_data |-> Aggregate(filtered_df, "NumOfProducts"),
                         complaint_data |-> Aggregate(filtered_df, "HasComplaint")]

CustomerSegments ==
    /\ Rerun
    /\ df' = loaded
    /\ \E segment_type \in DOMAIN segment_map :
         LET segment_col == segment_map[segment_type]
         IN  view' =
               IF ~({segment_col, "Balance", "CreditScore"} \subseteq loaded.cols)
               THEN [page |-> "Customer Segments", err |-> "KeyError",
                     segment_col |-> segment_col]
               ELSE [page |-> "Customer Segments", err |-> None,
                     segment_col |-> segment_col,
                     seg_data |-> SegData(loaded, segment_col)]

RiskAnalysis ==
    /\ Rerun
    /\ LET r == RiskScorer(loaded)
       IN  IF ~r.ok
           THEN /\ df' = loaded
                /\ view' = [page |-> "Risk Analysis", err |-> r.err]
           ELSE /\ df' = SharedAfterRisk(loaded, r.df)
                /\ view' = [page |-> "Risk Analysis", err |-> None,
                             df_risk |-> r.df,
                             risk_churn |-> Aggregate(r.df, "RiskLevel"),
                             risk_balance |->
                                 [key \in GroupKeys(r.df, "RiskLevel") |->
                                     SumCol(r.df, "Balance", Group(r.df, "RiskLevel", key))]]

Recommendations ==
    /\ Rerun
    /\ df' = loaded
    /\ view' = [page |-> "Recommendations", err |-> None]

Init ==
    /\ pc = "processed" /\ idx = 1
    /\ attempts = <<>> /\ df = NoFrame /\ kpi = NoKpi
    /\ raised = NoException /\ loaded = NoFrame /\ view = NoView
    /\ probe = NoFrame /\ out = NoResult
    /\ observed \in BOOLEAN

Next ==
    \/ TryProcessed
    \/ TryRaw
    \/ Finish
    \/ ExecutiveSummary
    \/ ChurnAnalysis
    \/ CustomerSegments
    \/ RiskAnalysis
    \/ Recommendations

Spec == Init /\ [][Next]_vars

(***************************************************************************)
(* Properties of the dashboard                                             *)
(***************************************************************************)
Returned == pc = "sidebar"
Finished == pc \in {"sidebar", "stopped"}
Tried(list) == {k \in 1..Len(attempts) : attempts[k].list = list}
SegmentColumns == {"AgeGroup", "BalanceSegment", "CreditSegment", "TenureSegment"}

\* C1: when the first N pre-derived candidates fail to read and candidate
\* N+1 reads, load_data's table is candidate N+1's content, no later
\* pre-derived candidate is attempted and no raw candidate is attempted.
C1_FirstDerivedWins ==
    \A k \in 1..Len(possible_paths) :
        ( /\ Len(attempts) >= k
          /\ attempts[k].list = "processed" /\ attempts[k].outcome = "ok"
          /\ \A j \in 1..(k - 1) : attempts[j].outcome # "ok" ) =>
            /\ Len(attempts) = k
            /\ \A j \in 1..k : attempts[j].path = possible_paths[j]
            /\ Tried("raw") = {}
            /\ pc = "check" => df = FileContent(attempts[k].file)
            /\ Returned => loaded = FileContent(attempts[k].file)

C1_Witness ==
    /\ Returned
    /\ Len(attempts) = 3
    /\ attempts[1].outcome = "FileNotFoundError"
    /\ attempts[2].outcome = "FileNotFoundError"
    /\ attempts[3].outcome = "ok" /\ attempts[3].file = "derived_other"
    /\ loaded = FileContent("derived_other")

\* C2: when every pre-derived and every raw candidate fails, the loader
\* fails with a DataUnavailableError carrying every attempted location with
\* its own failure reason.
C2_DataUnavailable ==
    (Finished /\ \A k \in 1..Len(attempts) : attempts[k].outcome # "ok") =>
        /\ pc = "stopped"
        /\ raised.type = "DataUnavailableError"
        /\ raised.args = [k \in 1..Len(attempts) |->
                              <<attempts[k].path, attempts[k].outcome>>]

\* C3: when all pre-derived candidates fail, the first raw candidate that is
\* read is returned after Normalizer then Labeler have run on it (identifier
\* columns dropped, columns renamed, the four segment columns added, no
\* RiskScore or RiskLevel), and no later raw candidate is attempted.
C3_RawFallback ==
    \A k \in 1..Len(raw_paths) :
        LET n == Len(possible_paths) + k
        IN  ( /\ Finished
              /\ Len(attempts) >= n
              /\ attempts[n].file # Missing
              /\ \A j \in (Len(possible_paths) + 1)..(n - 1) : attempts[j].file = Missing ) =>
                /\ Returned
                /\ Len(attempts) = n
                /\ loaded.cols \cap IdentifierColumns = {}
                /\ {"Churned", "HasComplaint", "SatisfactionScore", "CardType",
                    "PointsEarned"} \subseteq loaded.cols
                /\ SegmentColumns \subseteq loaded.cols
                /\ loaded.cols \cap {"RiskScore", "RiskLevel"} = {}
                /\ Len(loaded.rows) = Len(FileContent(attempts[n].file).rows)

\* C9: the Risk Analysis page never changes the table the pages share: after
\* any page run it has the columns and values it was loaded with, and no
\* RiskScore or RiskLevel column.
C9_SharedTableUnchanged ==
    Returned =>
        /\ df = loaded
        /\ df.cols \cap {"RiskScore", "RiskLevel"} = {}

C9_Witness ==
    /\ Returned
    /\ view.page = "Risk Analysis" /\ view.err = None
    /\ {"RiskScore", "RiskLevel"} \subseteq view.df_risk.cols
    /\ \E k \in 1..Len(view.df_risk.rows) : view.df_risk.rows[k]["RiskScore"] = 100
    /\ df = loaded

\* C10: the per-group summary loses and duplicates no rows: the groups'
\* Total sum to the number of rows of the table, the groups' Churned sum to
\* the table-wide sum of Churned.
C10_NoRowsLost ==
    (Returned /\ view.page = "Customer Segments" /\ view.err = None) =>
        /\ SumOver([g \in DOMAIN view.seg_data |-> view.seg_data[g].Total],
                   DOMAIN view.seg_data) = Len(loaded.rows)
        /\ SumOver([g \in DOMAIN view.seg_data |-> view.seg_data[g].Churned],
                   DOMAIN view.seg_data) = SumSeq(Column(loaded, "Churned"))

\* C11: the segment summary has exactly one row per grouping value that
\* occurs in the table, each with Total >= 1; a label no row received has
\* no row in the summary.
C11_OnlyOccurringValues ==
    (Returned /\ view.page = "Customer Segments" /\ view.err = None) =>
        LET col == view.segment_col
            occurring == {loaded.rows[k][col] : k \in 1..Len(loaded.rows)} \ {NaN}
        IN  /\ DOMAIN view.seg_data = occurring
            /\ \A key \in DOMAIN view.seg_data : view.seg_data[key].Total >= 1

\* C12: for a nonempty table the KPI churn rate and retention rate are
\* percentages between 0 and 100, the churn rate is 100 * (churned rows /
\* all rows), and the two rates sum to 100.
C12_KpiPercentages ==
    (Returned /\ Len(loaded.rows) > 0) =>
        LET total == Len(loaded.rows)
            churned == Cardinality({k \in 1..total : loaded.rows[k]["Churned"] = 1})
            c == kpi.churn_rate
            r == kpi.retention_rate
        IN  /\ c.den > 0 /\ r.den > 0
            /\ c.num * total = 100 * churned * c.den
            /\ 0 <= c.num /\ c.num <= 100 * c.den
            /\ 0 <= r.num /\ r.num <= 100 * r.den
            /\ c.num * r.den + r.num * c.den = 100 * c.den * r.den

C12_Witness ==
    /\ Returned
    /\ kpi.total_customers = 3
    /\ kpi.churn_rate = Ratio(200, 3)
    /\ kpi.retention_rate = Ratio(100, 3)

RequiredColumns == {"Age", "Balance", "CreditScore", "Tenure", "Churned", "Geography"}

\* C14: a table that lacks one of Age, Balance, CreditScore, Tenure, Churned,
\* Geography after normalization makes the run fail with a SchemaError: no
\* table lacking a required column is returned, and a load that ends on
\* such a table ends stopped with that error.
C14_SchemaError ==
    /\ Returned => RequiredColumns \subseteq loaded.cols
    /\ (Finished /\ df # NoFrame /\ ~(RequiredColumns \subseteq df.cols)) =>
            (pc = "stopped" /\ raised.type = "SchemaError")

\* C15: when load_data raises, the error message is what is shown, the
\* script stops before the sidebar, and no page is ever rendered.
C15_StopsBeforeSidebar ==
    /\ raised # NoException =>
            /\ pc = "stopped"
            /\ view = ErrorView(raised)
            /\ loaded = NoFrame /\ kpi = NoKpi
    /\ view.page # None => (pc = "sidebar" /\ raised = NoException)

C15_Witness ==
    /\ pc = "stopped"
    /\ raised.type = "KeyError"
    /\ view.page = None /\ view.error = <<"Error loading data", raised>>
    /\ \E k \in Tried("raw") : attempts[k].file = "raw_no_balance"

\* C16: load_data returns no partially processed table: a table returned
\* through the raw fallback carries all four segment columns, and when no
\* raw candidate was processed to the end the load fails with the "could
\* not load" error.
C16_NoPartialTable ==
    /\ (Returned /\ Tried("raw") # {}) => SegmentColumns \subseteq loaded.cols
    /\ (Finished /\ Tried("raw") # {}
          /\ \A k \in Tried("raw") : attempts[k].outcome # "ok") =>
            /\ pc = "stopped"
            /\ raised = Exception("FileNotFoundError",
                                  <<"Could not load data from any path">>)

(***************************************************************************)
(* Properties of the pipeline                                              *)
(***************************************************************************)
Labeled == out.stage = "Labeler" /\ out.res.ok
Scored == out.stage = "RiskScorer" /\ out.res.ok
Rows == 1..Len(probe.rows)
In(i) == probe.rows[i]
Res(i) == out.res.df.rows[i]

\* lab is the label of the one right-closed bin (bins[k], bins[k+1]] holding x.
OneLabel(x, bins, labels, lab) ==
    LET holding == {k \in 1..Len(labels) : bins[k] < x /\ x <= bins[k + 1]}
        named == {k \in 1..Len(labels) : labels[k] = lab}
    IN  Cardinality(holding) = 1 /\ named = holding

ValidAge(r) == r["Age"] > 0 /\ r["Age"] <= 100
ValidCredit(r) == r["CreditScore"] > 0 /\ r["CreditScore"] <= 900
ValidTenure(r) == r["Tenure"] >= 0 /\ r["Tenure"] <= 10
ValidRow(r) == ValidAge(r) /\ ValidCredit(r) /\ ValidTenure(r)

\* C4: every row with Age in (0,100], CreditScore in (0,900] and Tenure in
\* [0,10] gets exactly one AgeGroup, one CreditSegment and one TenureSegment,
\* by right-closed bins: Age 30 -> "18-30", Age 31 -> "31-40", CreditScore
\* 580 -> Poor, Tenure 0 -> "New (0-2)", Tenure 10 -> "Loyal (9-10)".
C4_LabelsTotalExclusive ==
    Labeled =>
        \A i \in Rows :
            ValidRow(In(i)) =>
                /\ OneLabel(In(i)["Age"], <<0, 30, 40, 50, 60, 100>>,
                            <<"18-30", "31-40", "41-50", "51-60", "60+">>,
                            Res(i)["AgeGroup"])
                /\ OneLabel(In(i)["CreditScore"], <<0, 580, 670, 740, 800, 900>>,
                            <<"Poor", "Fair", "Good", "Very Good", "Excellent">>,
                            Res(i)["CreditSegment"])
                /\ OneLabel(In(i)["Tenure"], <<-1, 2, 5, 8, 10>>,
                            <<"New (0-2)", "Growing (3-5)", "Mature (6-8)", "Loyal (9-10)">>,
                            Res(i)["TenureSegment"])
                /\ (In(i)["Age"] = 30 => Res(i)["AgeGroup"] = "18-30")
                /\ (In(i)["Age"] = 31 => Res(i)["AgeGroup"] = "31-40")
                /\ (In(i)["CreditScore"] = 580 => Res(i)["CreditSegment"] = "Poor")
                /\ (In(i)["Tenure"] = 0 => Res(i)["TenureSegment"] = "New (0-2)")
                /\ (In(i)["Tenure"] = 10 => Res(i)["TenureSegment"] = "Loyal (9-10)")

C4_Witness ==
    /\ Labeled
    /\ In(1)["Age"] = 31 /\ Res(1)["AgeGroup"] = "31-40"
    /\ \E i \in Rows : In(i)["Age"] = 30 /\ Res(i)["AgeGroup"] = "18-30"
    /\ \E i \in Rows : In(i)["CreditScore"] = 580 /\ Res(i)["CreditSegment"] = "Poor"
    /\ \E i \in Rows : In(i)["Tenure"] = 10 /\ Res(i)["TenureSegment"] = "Loyal (9-10)"

\* C5: a row with Age outside (0,100], CreditScore outside (0,900] or Tenure
\* outside [0,10] makes the Segment Labeler fail with a ValidationError.
C5_OutOfRangeRejected ==
    (out.stage = "Labeler" /\ \E i \in Rows : ~ValidRow(In(i))) =>
        (~out.res.ok /\ out.res.err = "ValidationError")

NonZero == {In(i)["Balance"] : i \in Rows} \ {0}

\* C6: after the Segment Labeler has run, BalanceSegment is "Zero" exactly on
\* the rows with Balance 0, every row with Balance > 0 has one of Low, Medium,
\* High, Premium, and the quantile edges span the nonzero balances only: the
\* smallest nonzero balance is in the first bucket, the largest in the last.
C6_BalanceSegments ==
    Labeled =>
        \A i \in Rows :
            /\ Res(i)["BalanceSegment"] = "Zero" <=> In(i)["Balance"] = 0
            /\ In(i)["Balance"] > 0 =>
                    Res(i)["BalanceSegment"] \in {"Low", "Medium", "High", "Premium"}
            /\ (In(i)["Balance"] > 0 /\ \A b \in NonZero : In(i)["Balance"] <= b) =>
                    Res(i)["BalanceSegment"] = "Low"
            /\ (In(i)["Balance"] > 0 /\ \A b \in NonZero : In(i)["Balance"] >= b) =>
                    Res(i)["BalanceSegment"] = "Premium"

C6_Witness ==
    /\ Labeled
    /\ Len(probe.rows) = 4
    /\ \E i \in Rows : In(i)["Balance"] = 0 /\ Res(i)["BalanceSegment"] = "Zero"
    /\ \E i \in Rows : Res(i)["BalanceSegment"] = "Low"
    /\ \E i \in Rows : Res(i)["BalanceSegment"] = "Medium"
    /\ \E i \in Rows : Res(i)["BalanceSegment"] = "Premium"

B(cond) == IF cond THEN 1 ELSE 0

\* C7: RiskScore = 40*[HasComplaint] + 20*[not IsActiveMember] +
\* 15*[Geography is Germany] + 15*[NumOfProducts in {1,3,4}] + 10*[Age > 50],
\* always within [0,100]; the scenario row scores exactly 100.
C7_RiskScoreRule ==
    Scored =>
        \A i \in Rows :
            /\ Res(i)["RiskScore"] =
                    40 * B(In(i)["HasComplaint"] = 1)
                  + 20 * B(In(i)["IsActiveMember"] # 1)
                  + 15 * B(In(i)["Geography"] = "Germany")
                  + 15 * B(In(i)["NumOfProducts"] \in {1, 3, 4})
                  + 10 * B(In(i)["Age"] > 50)
            /\ In(i)["NumOfProducts"] = 2 =>
                    Res(i)["RiskScore"] =
                        40 * B(In(i)["HasComplaint"] = 1)
                      + 20 * B(In(i)["IsActiveMember"] # 1)
                      + 15 * B(In(i)["Geography"] = "Germany")
                      + 10 * B(In(i)["Age"] > 50)
            /\ Res(i)["RiskScore"] >= 0 /\ Res(i)["RiskScore"] <= 100
            /\ ( /\ In(i)["HasComplaint"] = 1 /\ In(i)["IsActiveMember"] = 0
                 /\ In(i)["Geography"] = "Germany" /\ In(i)["NumOfProducts"] = 3
                 /\ In(i)["Age"] = 55 ) => Res(i)["RiskScore"] = 100

C7_Witness ==
    /\ Scored
    /\ In(1) = ScenarioRow
    /\ Res(1)["RiskScore"] = 100
    /\ \E i \in Rows : In(i)["NumOfProducts"] = 2 /\ Res(i)["RiskScore"] = 0

\* C8: every score the rule produces has exactly one level: 0..20 Low,
\* 21..40 Medium, 41..60 High, 61..100 Critical.
C8_RiskLevelBins ==
    Scored =>
        \A i \in Rows :
            LET sc == Res(i)["RiskScore"]
                lv == Res(i)["RiskLevel"]
            IN  /\ lv \in {"Low", "Medium", "High", "Critical"}
                /\ lv = "Low" <=> (sc >= 0 /\ sc <= 20)
                /\ lv = "Medium" <=> (sc >= 21 /\ sc <= 40)
                /\ lv = "High" <=> (sc >= 41 /\ sc <= 60)
                /\ lv = "Critical" <=> (sc >= 61 /\ sc <= 100)

C8_Witness ==
    /\ Scored
    /\ Res(1)["RiskScore"] = 60 /\ Res(1)["RiskLevel"] = "High"
    /\ \E i \in Rows : Res(i)["RiskScore"] = 0 /\ Res(i)["RiskLevel"] = "Low"

\* C13: the Schema Normalizer succeeds on a table that lacks any or all of
\* the three identifier columns, its result holds none of them, and on an
\* already-normalized table it changes nothing.
C13_MissingIdentifiersTolerated ==
    (out.stage \in {"Normalizer", "BatchNormalizer"}) =>
        /\ out.res.ok
        /\ out.res.df.cols \cap IdentifierColumns = {}
        /\ probe.cols \subseteq CanonicalColumns => out.res.df = probe

\* C17: on the same raw table the batch script's and the dashboard's
\* Normalizer + Labeler both succeed or both fail, and when they succeed
\* they give the same table.
C17_SameDerivedTable ==
    (out.stage = "Pipelines") =>
        /\ out.batch.ok = out.res.ok
        /\ out.res.ok => out.batch.df = out.res.df

====
